---- MODULE Spec2Model ----
(***************************************************************************)
(* A model of the lazorkit-starter demo application:                       *)
(*   - the subscription ledger kept in localStorage (src/lib/subscription) *)
(*   - the useSubscription hook and the subscription page that drives it   *)
(*   - the useSession hook, the ConnectButton and the session demo page    *)
(*                                                                         *)
(* Time.  Date.now() is modelled by the variable now.  TLC's integers are  *)
(* 32 bits wide and a millisecond clock does not hold a billing month, so  *)
(* one unit of model time is one hour: every duration the source writes in *)
(* milliseconds is written here in hours (DAY_MS is 24).  Instant 0 is     *)
(* 2024-01-01T00:00 and Date's calendar fields are taken in UTC.           *)
(***************************************************************************)
EXTENDS Integers, Sequences, FiniteSets, TLC

VARIABLES
    now,              \* Date.now()
    lsSubscriptions,  \* localStorage['lazorkit-subscriptions']: {} or {ledger}
    lsSession,        \* localStorage['lazorkit-session']: {} or {record}
    isConnected,      \* useWallet().isConnected
    smartWalletPubkey,\* useWallet().smartWalletPubkey: {} or {address}
    sdkConnect,       \* who awaits the SDK's connect(): "idle", "button", "restore"
    page,             \* the page shown: "session", "subscription"
    sessionInfo,      \* useSession state: {} or {record}
    isRestoring,      \* useSession state
    pcRestore,        \* where restoreSession stands
    subscriptions,    \* useSubscription state: the wallet's records
    isLoading,        \* useSubscription state
    inflight,         \* subscribe / processPayment calls awaiting a promise
    ret,              \* the value the last finished call returned
    calls,            \* number of calls made so far
    ticks,            \* number of clock advances so far
    tabs,             \* per browser tab: its ledger read-modify-write
    swap,             \* the SwapForm component's state
    toast,            \* the toast the last SwapForm step raised, if any
    bal,              \* the useBalance hook of the page shown
    form              \* the transfer form of the page shown

vars == <<now, lsSubscriptions, lsSession, isConnected, smartWalletPubkey,
          sdkConnect, page, sessionInfo, isRestoring, pcRestore,
          subscriptions, isLoading, inflight, ret, calls, ticks, tabs,
          swap, toast, bal, form>>

sessionVars == <<lsSession, sessionInfo, isRestoring, pcRestore>>
walletVars == <<isConnected, smartWalletPubkey, sdkConnect>>
hookVars == <<subscriptions, isLoading, inflight>>
elsewhere == <<tabs, swap, toast>>
transferVars == <<bal, form>>

-----------------------------------------------------------------------------
(* Bounds of the model *)

MaxTicks == 2      \* clock advances in one behaviour
MaxCalls == 3      \* ledger / hook calls in one behaviour
MaxSubs == 2       \* records in the ledger
MaxPageSubs == 3   \* records in the ledger that useSubscription adds to
MaxInFlight == 2   \* calls awaiting a promise at once

-----------------------------------------------------------------------------
(* Values *)

\* A JavaScript null / undefined reference is the empty set, a present value
\* the singleton of it.
NULL == {}

Some(v) == {v}

TheVal(o) == CHOOSE v \in o : TRUE

undefined == "undefined"

Wallets == {"walletA", "walletB"}

TxSigs == {"sig1", "sig2"}

\* outcomes of Math.random().toString(36).slice(2, 9)
RandomSuffixes == {"k3x9q2a", "0f7m1zb"}

BillingCycles == {"weekly", "monthly", "yearly"}

DEMO_PLANS == {
    [id |-> "basic", amount |-> 499, billingCycle |-> "monthly"],
    [id |-> "pro", amount |-> 1999, billingCycle |-> "monthly"],
    [id |-> "enterprise", amount |-> 9999, billingCycle |-> "monthly"] }

PlanIds == {p.id : p \in DEMO_PLANS}

DEMO_MERCHANT_ADDRESS == "DemoMerchant"

DAY_MS == 24

-----------------------------------------------------------------------------
(* The host Date type: calendar fields of an instant, and the instant of   *)
(* calendar fields that may overflow (setDate, setMonth and setFullYear    *)
(* normalise an out-of-range day or month by carrying).                    *)

Years == 2024 .. 2031

IsLeap(y) == (y % 4 = 0 /\ y % 100 # 0) \/ y % 400 = 0

DaysInYear(y) == IF IsLeap(y) THEN 366 ELSE 365

\* month is 0-based, as Date.getMonth()
DaysInMonth(y, m) ==
    CASE m = 1 -> IF IsLeap(y) THEN 29 ELSE 28
      [] m \in {3, 5, 8, 10} -> 30
      [] OTHER -> 31

RECURSIVE DaysBeforeYear(_)
DaysBeforeYear(y) ==
    IF y <= 2024 THEN 0 ELSE DaysBeforeYear(y - 1) + DaysInYear(y - 1)

RECURSIVE DaysBeforeMonth(_, _)
DaysBeforeMonth(y, m) ==
    IF m <= 0 THEN 0 ELSE DaysBeforeMonth(y, m - 1) + DaysInMonth(y, m - 1)

\* new Date(y, m, d): m may exceed 11 and d may exceed the month's length
DayNumber(y, m, d) ==
    LET yy == y + (m \div 12)
        mm == m % 12
    IN  DaysBeforeYear(yy) + DaysBeforeMonth(yy, mm) + (d - 1)

\* the calendar fields of every day of the model's years
CivilOfDay ==
    [n \in 0 .. (DaysBeforeYear(2032) - 1) |->
        LET y == CHOOSE yy \in Years :
                    DaysBeforeYear(yy) <= n /\ n < DaysBeforeYear(yy + 1)
            m == CHOOSE mm \in 0 .. 11 :
                    /\ DaysBeforeYear(y) + DaysBeforeMonth(y, mm) <= n
                    /\ n < DaysBeforeYear(y) + DaysBeforeMonth(y, mm + 1)
        IN  [year |-> y, month |-> m, date |-> n - DayNumber(y, m, 1) + 1]]

getFullYear(t) == CivilOfDay[t \div DAY_MS].year

getMonth(t) == CivilOfDay[t \div DAY_MS].month

getDate(t) == CivilOfDay[t \div DAY_MS].date

TimeOfDay(t) == t % DAY_MS

calculateNextBillingDate(fromDate, cycle) ==
    LET y == getFullYear(fromDate)
        m == getMonth(fromDate)
        d == getDate(fromDate)
    IN  CASE cycle = "weekly" ->
               DayNumber(y, m, d + 7) * DAY_MS + TimeOfDay(fromDate)
          [] cycle = "monthly" ->
               DayNumber(y, m + 1, d) * DAY_MS + TimeOfDay(fromDate)
          [] cycle = "yearly" ->
               DayNumber(y + 1, m, d) * DAY_MS + TimeOfDay(fromDate)

getCycleDuration(cycle) ==
    CASE cycle = "weekly" -> 7 * DAY_MS
      [] cycle = "monthly" -> 30 * DAY_MS
      [] cycle = "yearly" -> 365 * DAY_MS

\* The clock of a fresh behaviour: 2024-01-31T10:00
StartNow == DayNumber(2024, 0, 31) * DAY_MS + 10

-----------------------------------------------------------------------------
(* src/lib/subscription.ts: the ledger in localStorage *)

\* Texts under a storage key that the application did not write: one that
\* JSON.parse rejects, the JSON of null and the JSON of an object without any
\* of the expected keys.  Under the ledger key, whose texts are modelled as
\* sequences, such a text is the one-element sequence holding it.
ForeignTexts == {[text |-> "{not json"], [text |-> "null"], [text |-> "{}"]}

IsForeign(item) == "text" \in DOMAIN item

IsForeignLedger(text) == Len(text) = 1 /\ IsForeign(text[1])

\* JSON.stringify omits a key whose value is undefined
JSONstringify(subs) ==
    [i \in 1 .. Len(subs) |->
        IF subs[i].lastPaymentTx = undefined
        THEN [k \in (DOMAIN subs[i]) \ {"lastPaymentTx"} |-> subs[i][k]]
        ELSE subs[i]]

\* reading a key the parsed object lacks yields undefined
JSONparse(text) ==
    [i \in 1 .. Len(text) |->
        [k \in (DOMAIN text[i]) \cup {"lastPaymentTx"} |->
            IF k \in DOMAIN text[i] THEN text[i][k] ELSE undefined]]

\* stored ? JSON.parse(stored) : [], inside try / catch: a text JSON.parse
\* rejects gives [], any other text gives whatever JSON.parse returns, which
\* for a text that is not the JSON of an array is the parsed null or object
\* (kept here as the text that stands for it)
loadSubscriptions(stored) ==
    IF stored = NULL THEN <<>>
    ELSE IF IsForeignLedger(TheVal(stored))
    THEN IF TheVal(stored)[1].text = "{not json" THEN <<>> ELSE TheVal(stored)
    ELSE JSONparse(TheVal(stored))

saveSubscriptions(subs) == Some(JSONstringify(subs))

getWalletSubscriptions(stored, walletAddress) ==
    SelectSeq(loadSubscriptions(stored), LAMBDA sub : sub.walletAddress = walletAddress)

\* Array.prototype.findIndex on the id, 1-based; 0 stands for -1
findIndex(subs, subscriptionId) ==
    IF \E i \in 1 .. Len(subs) : subs[i].id = subscriptionId
    THEN CHOOSE i \in 1 .. Len(subs) :
            /\ subs[i].id = subscriptionId
            /\ \A j \in 1 .. (i - 1) : subs[j].id # subscriptionId
    ELSE 0

\* `sub_${now}_${Math.random().toString(36).slice(2, 9)}`
SubscriptionId(t, rnd) == [ts |-> t, rnd |-> rnd]

\* The record of createSubscription with the due date taken from the fixed
\* cycle length of getCycleDuration instead of the calendar.
NewSubscription_FixedDuration(a, t, rnd) ==
    [id |-> SubscriptionId(t, rnd),
     planId |-> a.planId,
     walletAddress |-> a.walletAddress,
     merchantAddress |-> a.merchantAddress,
     amount |-> a.amount,
     billingCycle |-> a.billingCycle,
     startDate |-> t,
     nextBillingDate |-> t + getCycleDuration(a.billingCycle),
     status |-> "active",
     lastPaymentTx |-> a.paymentTx]

\* a: the arguments of createSubscription; t: Date.now(); rnd: Math.random()
NewSubscription(a, t, rnd) ==
    [id |-> SubscriptionId(t, rnd),
     planId |-> a.planId,
     walletAddress |-> a.walletAddress,
     merchantAddress |-> a.merchantAddress,
     amount |-> a.amount,
     billingCycle |-> a.billingCycle,
     startDate |-> t,
     nextBillingDate |-> calculateNextBillingDate(t, a.billingCycle),
     status |-> "active",
     lastPaymentTx |-> a.paymentTx]

createSubscription(stored, a, t, rnd) ==
    LET subscription == NewSubscription(a, t, rnd)
        subs == loadSubscriptions(stored)
    IN  [stored |-> saveSubscriptions(Append(subs, subscription)),
         value |-> subscription]

\* The cancellation that marks every record of the same wallet.
cancelSubscription_WholeWallet(stored, subscriptionId) ==
    LET subs == loadSubscriptions(stored)
        index == findIndex(subs, subscriptionId)
    IN  IF index = 0
        THEN [stored |-> stored, value |-> FALSE]
        ELSE [stored |-> saveSubscriptions(
                  [k \in 1 .. Len(subs) |->
                      IF subs[k].walletAddress = subs[index].walletAddress
                      THEN [subs[k] EXCEPT !.status = "cancelled"]
                      ELSE subs[k]]),
              value |-> TRUE]

cancelSubscription(stored, subscriptionId) ==
    LET subs == loadSubscriptions(stored)
        index == findIndex(subs, subscriptionId)
    IN  IF index = 0
        THEN [stored |-> stored, value |-> FALSE]
        ELSE [stored |-> saveSubscriptions(
                            [subs EXCEPT ![index].status = "cancelled"]),
              value |-> TRUE]

\* The update of recordPayment that forgets the payment reference.
PaidSubscription_KeepsTx(subscription, paymentTx, t) ==
    [subscription EXCEPT
        !.nextBillingDate = calculateNextBillingDate(t, subscription.billingCycle)]

\* The update of recordPayment that advances from the previous due date.
PaidSubscription_FromDueDate(subscription, paymentTx, t) ==
    [subscription EXCEPT
        !.lastPaymentTx = paymentTx,
        !.nextBillingDate = calculateNextBillingDate(subscription.nextBillingDate,
                                                     subscription.billingCycle)]

\* The update of recordPayment that also makes the subscription active.
PaidSubscription_Reactivates(subscription, paymentTx, t) ==
    [subscription EXCEPT
        !.status = "active",
        !.lastPaymentTx = paymentTx,
        !.nextBillingDate = calculateNextBillingDate(t, subscription.billingCycle)]

PaidSubscription(subscription, paymentTx, t) ==
    [subscription EXCEPT
        !.lastPaymentTx = paymentTx,
        !.nextBillingDate = calculateNextBillingDate(t, subscription.billingCycle)]

recordPayment(stored, subscriptionId, paymentTx, t) ==
    LET subs == loadSubscriptions(stored)
        index == findIndex(subs, subscriptionId)
    IN  IF index = 0
        THEN [stored |-> stored, value |-> NULL]
        ELSE [stored |-> saveSubscriptions(
                  [subs EXCEPT ![index] = PaidSubscription(subs[index], paymentTx, t)]),
              value |-> Some(PaidSubscription(subs[index], paymentTx, t))]

\* The due test that does not look at the status.
isPaymentDue_IgnoresStatus(subscription, t) ==
    t >= subscription.nextBillingDate

isPaymentDue(subscription, t) ==
    IF subscription.status # "active" THEN FALSE
    ELSE t >= subscription.nextBillingDate

\* Math.ceil(a / b) for b > 0
Ceil(a, b) == -((-a) \div b)

\* Math.max(a, b)
Max(a, b) == IF a >= b THEN a ELSE b

\* The day count that rounds down.
getDaysUntilBilling_Floor(subscription, t) ==
    Max(0, (subscription.nextBillingDate - t) \div DAY_MS)

getDaysUntilBilling(subscription, t) ==
    Max(0, Ceil(subscription.nextBillingDate - t, DAY_MS))

-----------------------------------------------------------------------------
(* src/hooks/use-session.ts: the session record in localStorage *)

DEFAULT_EXPIRY_MS == 24

\* SessionDemoPage calls useSession() with the default expiry
expiryMs == DEFAULT_EXPIRY_MS

\* JSON.stringify omits walletAddress when it is undefined
SessionStringify(session) ==
    IF session.walletAddress = undefined
    THEN [k \in (DOMAIN session) \ {"walletAddress"} |-> session[k]]
    ELSE session

SessionParse(text) ==
    [k \in (DOMAIN text) \cup {"walletAddress"} |->
        IF k \in DOMAIN text THEN text[k] ELSE undefined]

\* the record saveSession builds: smartWalletPubkey?.toBase58()
NewSession(pubkey, t) ==
    [connected |-> TRUE,
     timestamp |-> t,
     walletAddress |-> IF pubkey = NULL THEN undefined ELSE TheVal(pubkey)]

\* JSON.parse(saved) inside try / catch: a text JSON.parse rejects gives
\* null, "null" parses to null, "{}" parses to an object without the keys
loadSession(stored) ==
    IF stored = NULL THEN NULL
    ELSE IF IsForeign(TheVal(stored))
    THEN IF TheVal(stored).text = "{}"
         THEN Some([walletAddress |-> undefined])
         ELSE NULL
    ELSE Some(SessionParse(TheVal(stored)))

\* The validity test with the boundary instant included.
isValidSession_Inclusive(session, t) ==
    IF session = NULL \/ ~TheVal(session).connected THEN FALSE
    ELSE t - TheVal(session).timestamp <= expiryMs

\* !session.connected is true of an object that has no connected key
isValidSession(session, t) ==
    IF \/ session = NULL
       \/ "connected" \notin DOMAIN TheVal(session)
       \/ ~TheVal(session).connected
    THEN FALSE
    ELSE t - TheVal(session).timestamp < expiryMs

\* The hook's two mount effects, run in order against the wallet state
\* (connected, pubkey), the stored record and the clock: the save effect,
\* then restoreSession up to its first await or to its end.
MountSession(connected, pubkey, stored, t, sdk) ==
    LET saved == IF connected /\ pubkey # NULL
                 THEN Some(SessionStringify(NewSession(pubkey, t)))
                 ELSE stored
        session == loadSession(saved)
    IN  IF isValidSession(session, t)
        THEN [ls |-> saved, info |-> session, restoring |-> TRUE,
              pc |-> "await_connect", sdk |-> "restore"]
        ELSE IF session # NULL
        THEN [ls |-> NULL, info |-> NULL, restoring |-> FALSE,
              pc |-> "expired", sdk |-> sdk]
        ELSE [ls |-> saved, info |-> NULL, restoring |-> FALSE,
              pc |-> "no_session", sdk |-> sdk]

-----------------------------------------------------------------------------
(* The state of a freshly opened browser: empty storage, the session page  *)
(* loaded, its hooks mounted and restoreSession run to its end (there is   *)
(* no record to restore).                                                  *)

NoReturn == [call |-> 0, op |-> "none"]

\* the browser tabs that have the application open; none of them is inside
\* a ledger function
Tabs == {"tab1", "tab2"}

NoTabs == [tab \in Tabs |-> [pc |-> "idle"]]

\* the swap page is not open
NoSwapForm == [mounted |-> FALSE]

\* no component that uses useBalance is shown
NoBalance ==
    [mounted |-> FALSE,
     autoRefreshMs |-> NULL,
     balance |-> NULL,
     balanceLamports |-> NULL,
     isLoading |-> FALSE,
     error |-> NULL,
     interval |-> NULL,
     fetches |-> <<>>,
     fetchedFor |-> NULL]

\* no transfer form is shown
NoForm ==
    [mounted |-> FALSE,
     kind |-> "none",
     recipient |-> "",
     amount |-> "",
     tokenBalance |-> NULL,
     isLoadingBalance |-> FALSE,
     tokenFetches |-> <<>>,
     error |-> NULL,
     isSubmitting |-> FALSE,
     pc |-> "idle",
     seen |-> NULL,
     sent |-> NULL]

\* the two forms of the transfer pages
FormKinds == {"sol", "token"}

LAMPORTS_PER_SOL == 1000000000

\* what connection.getBalance answers with
LamportValues == {0, 2 * LAMPORTS_PER_SOL}

\* the wallet state a render of useBalance sees; fetchBalance closes over it
WalletSeen(connected, pubkey) ==
    [isConnected |-> connected, smartWalletPubkey |-> pubkey]

\* state setters do nothing once the component is unmounted; the request
\* a call has started stays in flight
SetBalanceState(b, next) ==
    IF b.mounted THEN next ELSE [b EXCEPT !.fetches = next.fetches]

\* fetchBalance as the callback of the render that saw c, up to its await
fetchBalance(b, c, by) ==
    IF ~c.isConnected \/ c.smartWalletPubkey = NULL
    THEN SetBalanceState(b, [b EXCEPT !.balance = NULL,
                                      !.balanceLamports = NULL,
                                      !.fetchedFor = NULL])
    ELSE SetBalanceState(b, [b EXCEPT
             !.isLoading = TRUE,
             !.error = NULL,
             !.fetches = Append(@, [wallet |-> TheVal(c.smartWalletPubkey),
                                    by |-> by])])

\* useBalance whose second effect has no cleanup
BalanceEffects_KeepsInterval(b, connected, pubkey) ==
    [fetchBalance(b, WalletSeen(connected, pubkey), "effect") EXCEPT
       !.interval = IF b.autoRefreshMs # NULL /\ connected
                    THEN Some(WalletSeen(connected, pubkey))
                    ELSE b.interval]

\* the two effects of useBalance, run at mount and whenever the wallet
\* state changed: fetch once, then clear the interval and set a new one
BalanceEffects(b, connected, pubkey) ==
    [fetchBalance(b, WalletSeen(connected, pubkey), "effect") EXCEPT
       !.interval = IF b.autoRefreshMs # NULL /\ connected
                    THEN Some(WalletSeen(connected, pubkey))
                    ELSE NULL]

MountBalance(autoRefreshMs, connected, pubkey) ==
    BalanceEffects([NoBalance EXCEPT !.mounted = TRUE,
                                     !.autoRefreshMs = autoRefreshMs],
                   connected, pubkey)

\* TokenTransferForm's fetchTokenBalance as the callback of the render
\* that saw pubkey, up to its first await
fetchTokenBalance(f, pubkey, by) ==
    IF pubkey = NULL
    THEN [f EXCEPT !.tokenBalance = NULL]
    ELSE [f EXCEPT !.isLoadingBalance = TRUE,
                   !.tokenFetches = Append(@, [wallet |-> TheVal(pubkey),
                                               by |-> by])]

\* TokenTransferForm's effect fetches the token balance once connected;
\* SolTransferForm has no effect of its own
FormEffects(f, connected, pubkey) ==
    IF f.kind = "token" /\ connected /\ pubkey # NULL
    THEN fetchTokenBalance(f, pubkey, "effect")
    ELSE f

MountForm(kind, connected, pubkey) ==
    FormEffects([NoForm EXCEPT !.mounted = TRUE, !.kind = kind],
                connected, pubkey)

\* what the components of the transfer and wallet pages do when the
\* wallet state changes to (connected, pubkey)
TransferEffects(connected, pubkey) ==
    /\ Len(bal.fetches) < MaxInFlight \/ ~bal.mounted \/ ~connected
    /\ Len(form.tokenFetches) < MaxInFlight \/ ~form.mounted \/ ~connected
    /\ bal' = IF bal.mounted
              THEN BalanceEffects(bal, connected, pubkey)
              ELSE bal
    /\ form' = IF form.mounted
               THEN FormEffects(form, connected, pubkey)
               ELSE form

\* no toast is raised; caught is the message of the error a handler caught
NoToast == [kind |-> "none", message |-> <<>>, caught |-> <<>>]

Init ==
    /\ now = StartNow
    /\ lsSubscriptions = NULL
    /\ lsSession = NULL
    /\ isConnected = FALSE
    /\ smartWalletPubkey = NULL
    /\ sdkConnect = "idle"
    /\ page = "session"
    /\ sessionInfo = NULL
    /\ isRestoring = FALSE
    /\ pcRestore = "no_session"
    /\ subscriptions = <<>>
    /\ isLoading = FALSE
    /\ inflight = {}
    /\ ret = NoReturn
    /\ calls = 0
    /\ ticks = 0
    /\ tabs = NoTabs
    /\ swap = NoSwapForm
    /\ toast = NoToast
    /\ bal = NoBalance
    /\ form = NoForm

\* The clock moves forward by one of the given steps.
Tick(steps) ==
    /\ ticks < MaxTicks
    /\ \E d \in steps : now' = now + d
    /\ ticks' = ticks + 1

-----------------------------------------------------------------------------
(* The wallet SDK as the application uses it (useWallet): connect() is     *)
(* awaited by the ConnectButton or by restoreSession and resolves with a   *)
(* wallet or rejects; disconnect() drops the wallet.  After each change of *)
(* the wallet state React runs the effects of the mounted hooks.           *)

\* useSubscription's refresh(), with the wallet of the closure that calls it
refresh(stored, pubkey) ==
    IF pubkey # NULL THEN getWalletSubscriptions(stored, TheVal(pubkey)) ELSE <<>>

\* useSubscription's effect on [refresh]; the hook lives on the subscription page
RefreshEffect(pubkey) ==
    subscriptions' = IF page = "subscription"
                     THEN refresh(lsSubscriptions, pubkey)
                     ELSE subscriptions

\* useSession's effect on [isConnected, smartWalletPubkey, saveSession]
\* The save effect that writes only when nothing is stored yet.
SaveSessionEffect_KeepsExisting(connected, pubkey) ==
    IF /\ page = "session"
       /\ connected /\ pubkey # NULL
       /\ <<connected, pubkey>> # <<isConnected, smartWalletPubkey>>
       /\ lsSession = NULL
    THEN /\ lsSession' = Some(SessionStringify(NewSession(pubkey, now)))
         /\ sessionInfo' = Some(NewSession(pubkey, now))
    ELSE UNCHANGED <<lsSession, sessionInfo>>

SaveSessionEffect(connected, pubkey) ==
    IF /\ page = "session"
       /\ connected /\ pubkey # NULL
       /\ <<connected, pubkey>> # <<isConnected, smartWalletPubkey>>
    THEN /\ lsSession' = Some(SessionStringify(NewSession(pubkey, now)))
         /\ sessionInfo' = Some(NewSession(pubkey, now))
    ELSE UNCHANGED <<lsSession, sessionInfo>>

clearSession ==
    /\ lsSession' = NULL
    /\ sessionInfo' = NULL

\* ConnectButton, "Connect with Passkey": shown when no connect is pending
\* and the wallet is not connected
HandleConnect ==
    /\ sdkConnect = "idle"
    /\ ~(isConnected /\ smartWalletPubkey # NULL)
    /\ sdkConnect' = "button"
    /\ UNCHANGED <<now, ticks, calls, ret, page, elsewhere, transferVars, lsSubscriptions, isConnected,
                   smartWalletPubkey, sessionVars, hookVars>>

ButtonConnectResolve ==
    /\ sdkConnect = "button"
    /\ \E w \in Wallets :
         /\ isConnected' = TRUE
         /\ smartWalletPubkey' = Some(w)
         /\ SaveSessionEffect(TRUE, Some(w))
         /\ RefreshEffect(Some(w))
         /\ TransferEffects(TRUE, Some(w))
    /\ sdkConnect' = "idle"
    /\ UNCHANGED <<now, ticks, calls, ret, page, elsewhere, lsSubscriptions, isRestoring,
                   pcRestore, isLoading, inflight>>

ButtonConnectReject ==
    /\ sdkConnect = "button"
    /\ sdkConnect' = "idle"
    /\ UNCHANGED <<now, ticks, calls, ret, page, elsewhere, transferVars, lsSubscriptions, isConnected,
                   smartWalletPubkey, sessionVars, hookVars>>

\* ConnectButton, the disconnect icon: shown when connected
HandleDisconnect ==
    /\ sdkConnect = "idle"
    /\ isConnected /\ smartWalletPubkey # NULL
    /\ isConnected' = FALSE
    /\ smartWalletPubkey' = NULL
    /\ SaveSessionEffect(FALSE, NULL)
    /\ RefreshEffect(NULL)
    /\ TransferEffects(FALSE, NULL)
    /\ UNCHANGED <<now, ticks, calls, ret, page, elsewhere, lsSubscriptions, sdkConnect,
                   isRestoring, pcRestore, isLoading, inflight>>

-----------------------------------------------------------------------------
(* useSession on the session demo page *)

\* restoreSession after `await connect()` resolved
RestoreConnectResolve ==
    /\ sdkConnect = "restore"
    /\ \E w \in Wallets :
         /\ isConnected' = TRUE
         /\ smartWalletPubkey' = Some(w)
         /\ SaveSessionEffect(TRUE, Some(w))
         /\ TransferEffects(TRUE, Some(w))
    /\ sdkConnect' = "idle"
    /\ isRestoring' = FALSE
    /\ pcRestore' = "connected"
    /\ UNCHANGED <<now, ticks, calls, ret, page, elsewhere, lsSubscriptions, hookVars>>

\* restoreSession whose catch block leaves the stored record in place.
RestoreConnectReject_KeepsRecord ==
    /\ sdkConnect = "restore"
    /\ sdkConnect' = "idle"
    /\ isRestoring' = FALSE
    /\ pcRestore' = "failed"
    /\ UNCHANGED <<now, ticks, calls, ret, page, elsewhere, transferVars, lsSubscriptions, isConnected,
                   smartWalletPubkey, lsSession, sessionInfo, hookVars>>

\* restoreSession after `await connect()` rejected: the catch block
\* restoreSession that leaves isRestoring set when connect() rejects
RestoreConnectReject_StaysRestoring ==
    /\ sdkConnect = "restore"
    /\ sdkConnect' = "idle"
    /\ clearSession
    /\ pcRestore' = "failed"
    /\ UNCHANGED <<now, ticks, calls, ret, page, elsewhere, transferVars,
                   lsSubscriptions, isConnected, smartWalletPubkey,
                   isRestoring, hookVars>>

RestoreConnectReject ==
    /\ sdkConnect = "restore"
    /\ sdkConnect' = "idle"
    /\ clearSession
    /\ isRestoring' = FALSE
    /\ pcRestore' = "failed"
    /\ UNCHANGED <<now, ticks, calls, ret, page, elsewhere, transferVars, lsSubscriptions, isConnected,
                   smartWalletPubkey, hookVars>>

\* the page's "Clear Session" button, disabled while sessionInfo is null
ClearSessionClick ==
    /\ page = "session"
    /\ sessionInfo # NULL
    /\ clearSession
    /\ UNCHANGED <<now, ticks, calls, ret, page, elsewhere, transferVars, lsSubscriptions, walletVars,
                   isRestoring, pcRestore, hookVars>>

\* A page load that takes a valid stored record for a connection.
Reload_TrustsRecord ==
    /\ isConnected' = isValidSession(loadSession(lsSession), now)
    /\ smartWalletPubkey' = NULL
    /\ isLoading' = FALSE
    /\ inflight' = {}
    /\ subscriptions' = <<>>
    /\ sdkConnect' = "idle"
    /\ isRestoring' = FALSE
    /\ pcRestore' = "no_session"
    /\ UNCHANGED <<now, ticks, calls, ret, page, elsewhere, transferVars, lsSubscriptions, lsSession,
                   sessionInfo>>

\* window.location.reload(), or the page opened again: memory is lost,
\* localStorage is kept, the page's hooks mount with the wallet disconnected
Reload ==
    /\ isConnected' = FALSE
    /\ smartWalletPubkey' = NULL
    /\ isLoading' = FALSE
    /\ inflight' = {}
    /\ subscriptions' = <<>>
    /\ IF page = "session"
       THEN LET m == MountSession(FALSE, NULL, lsSession, now, "idle")
            IN  /\ lsSession' = m.ls
                /\ sessionInfo' = m.info
                /\ isRestoring' = m.restoring
                /\ pcRestore' = m.pc
                /\ sdkConnect' = m.sdk
       ELSE /\ sdkConnect' = "idle"
            /\ sessionInfo' = NULL
            /\ isRestoring' = FALSE
            /\ pcRestore' = "unmounted"
            /\ UNCHANGED lsSession
    /\ bal' = IF bal.mounted
              THEN MountBalance(bal.autoRefreshMs, FALSE, NULL)
              ELSE bal
    /\ form' = IF form.mounted
               THEN MountForm(form.kind, FALSE, NULL)
               ELSE form
    /\ UNCHANGED <<now, ticks, calls, ret, page, elsewhere, lsSubscriptions>>

\* a sidebar link, followed while nothing is awaited: the wallet provider
\* stays, the page's hooks unmount and the other page's mount
Navigate ==
    /\ sdkConnect = "idle"
    /\ inflight = {}
    /\ isLoading' = FALSE
    /\ IF page = "subscription"
       THEN LET m == MountSession(isConnected, smartWalletPubkey, lsSession,
                                  now, sdkConnect)
            IN  /\ page' = "session"
                /\ lsSession' = m.ls
                /\ sessionInfo' = m.info
                /\ isRestoring' = m.restoring
                /\ pcRestore' = m.pc
                /\ sdkConnect' = m.sdk
                /\ subscriptions' = <<>>
       ELSE /\ page' = "subscription"
            /\ sessionInfo' = NULL
            /\ isRestoring' = FALSE
            /\ pcRestore' = "unmounted"
            /\ subscriptions' = refresh(lsSubscriptions, smartWalletPubkey)
            /\ UNCHANGED <<lsSession, sdkConnect>>
    /\ UNCHANGED <<now, ticks, calls, ret, elsewhere, transferVars, lsSubscriptions,
                   isConnected,
                   smartWalletPubkey, inflight>>

SessionTickSteps == {1, expiryMs - 1}

SessionTick ==
    /\ Tick(SessionTickSteps)
    /\ UNCHANGED <<calls, ret, page, elsewhere, transferVars, lsSubscriptions, walletVars, sessionVars,
                   hookVars>>

NextSession ==
    \/ HandleConnect
    \/ ButtonConnectResolve
    \/ ButtonConnectReject
    \/ HandleDisconnect
    \/ RestoreConnectResolve
    \/ RestoreConnectReject
    \/ ClearSessionClick
    \/ Reload
    \/ Navigate
    \/ SessionTick

SpecSession == Init /\ [][NextSession]_vars

-----------------------------------------------------------------------------
(* Claims about the session, under SpecSession *)

\* C1: when the stored record is valid and restoreSession's connect() fails,
\* restoration ends with the record removed from localStorage and
\* sessionInfo null.
C1_FailedRestoreClearsRecord ==
    [][(pcRestore = "await_connect" /\ pcRestore' = "failed") =>
        /\ lsSession' = NULL
        /\ sessionInfo' = NULL
        /\ ~isRestoring']_vars

\* a restoration has ended in a failed connect()
C1_Witness ==
    /\ pcRestore = "failed"
    /\ lsSession = NULL
    /\ sessionInfo = NULL
    /\ ~isRestoring
    /\ sdkConnect = "idle"

\* C2 (as claimed): after the ConnectButton's disconnect no session record
\* remains in localStorage.
C2_LogoutRemovesRecord ==
    [][HandleDisconnect => lsSession' = NULL]_vars

\* C4: the wallet becomes connected only in a step in which a pending SDK
\* connect() settles; a stored record, however valid, only starts one.
C4_ConnectedOnlyBySdkConnect ==
    [][/\ (~isConnected /\ isConnected') =>
            (sdkConnect \in {"button", "restore"} /\ sdkConnect' = "idle")
       /\ (pcRestore # "await_connect" /\ pcRestore' = "await_connect") =>
            (sdkConnect' = "restore" /\ (isConnected' => isConnected))]_vars

\* a valid record is stored, restoration awaits connect(), nothing is connected
C4_Witness ==
    /\ isValidSession(loadSession(lsSession), now)
    /\ pcRestore = "await_connect"
    /\ sdkConnect = "restore"
    /\ ~isConnected

-----------------------------------------------------------------------------
(* SpecIsValid: isValidSession applied to records of every shape at        *)
(* instants around the expiry.                                             *)

SessionInputs ==
    {NULL} \cup
    { Some([connected |-> c, timestamp |-> ts, walletAddress |-> w]) :
        c \in BOOLEAN, ts \in {StartNow - 1, StartNow},
        w \in Wallets \cup {undefined} }

InitIsValid ==
    /\ now = StartNow
    /\ lsSubscriptions = NULL
    /\ lsSession = NULL
    /\ isConnected = FALSE
    /\ smartWalletPubkey = NULL
    /\ sdkConnect = "idle"
    /\ page = "session"
    /\ sessionInfo \in SessionInputs
    /\ isRestoring = FALSE
    /\ pcRestore = "no_session"
    /\ subscriptions = <<>>
    /\ isLoading = FALSE
    /\ inflight = {}
    /\ ret = NoReturn
    /\ calls = 0
    /\ ticks = 0
    /\ tabs = NoTabs
    /\ swap = NoSwapForm
    /\ toast = NoToast
    /\ bal = NoBalance
    /\ form = NoForm

\* the hook's return value isSessionValid: isValidSession(sessionInfo)
RenderIsSessionValid ==
    /\ ret' = [call |-> 0, op |-> "isValidSession", session |-> sessionInfo,
               t |-> now, value |-> isValidSession(sessionInfo, now)]
    /\ UNCHANGED <<now, ticks, calls, page, elsewhere, transferVars, lsSubscriptions, walletVars,
                   sessionVars, hookVars>>

NextIsValid == RenderIsSessionValid \/ SessionTick

SpecIsValid == InitIsValid /\ [][NextIsValid]_vars

-----------------------------------------------------------------------------
(* SpecLedger: the ledger functions called directly, as a test of          *)
(* src/lib/subscription.ts would call them.                                *)

LedgerTickSteps == {31 * DAY_MS, 366 * DAY_MS}

LedgerPlanIds == {"basic"}

LedgerArgs ==
    [planId : LedgerPlanIds, walletAddress : {"walletA"},
     merchantAddress : {DEMO_MERCHANT_ADDRESS}, amount : {499},
     billingCycle : BillingCycles, paymentTx : {undefined, "sig1"}]

\* the ids a caller can pass: those of stored records, and one of no record
KnownIds == {loadSubscriptions(lsSubscriptions)[i].id :
                i \in 1 .. Len(loadSubscriptions(lsSubscriptions))}

UnknownId == SubscriptionId(0, "unknown")

LedgerUnchanged == UNCHANGED <<walletVars, sessionVars, hookVars, page, elsewhere, transferVars>>

LibCreate ==
    /\ calls < MaxCalls
    /\ Len(loadSubscriptions(lsSubscriptions)) < MaxSubs
    /\ \E a \in LedgerArgs, rnd \in RandomSuffixes :
         LET r == createSubscription(lsSubscriptions, a, now, rnd)
         IN  /\ lsSubscriptions' = r.stored
             /\ ret' = [call |-> calls + 1, op |-> "create", args |-> a,
                        value |-> r.value]
    /\ calls' = calls + 1
    /\ UNCHANGED <<now, ticks>>
    /\ LedgerUnchanged

LibCancel ==
    /\ calls < MaxCalls
    /\ \E id \in KnownIds \cup {UnknownId} :
         LET r == cancelSubscription(lsSubscriptions, id)
         IN  /\ lsSubscriptions' = r.stored
             /\ ret' = [call |-> calls + 1, op |-> "cancel", id |-> id,
                        value |-> r.value]
    /\ calls' = calls + 1
    /\ UNCHANGED <<now, ticks>>
    /\ LedgerUnchanged

LibRecordPayment ==
    /\ calls < MaxCalls
    /\ \E id \in KnownIds \cup {UnknownId}, tx \in {"sig2"} :
         LET r == recordPayment(lsSubscriptions, id, tx, now)
         IN  /\ lsSubscriptions' = r.stored
             /\ ret' = [call |-> calls + 1, op |-> "recordPayment", id |-> id,
                        tx |-> tx, value |-> r.value]
    /\ calls' = calls + 1
    /\ UNCHANGED <<now, ticks>>
    /\ LedgerUnchanged

LibTick ==
    /\ Tick(LedgerTickSteps)
    /\ UNCHANGED <<lsSubscriptions, ret, calls>>
    /\ LedgerUnchanged

NextLedger == LibCreate \/ LibCancel \/ LibRecordPayment \/ LibTick

SpecLedger == Init /\ [][NextLedger]_vars

-----------------------------------------------------------------------------
(* Claims about the ledger functions, under SpecLedger *)

Ledger == loadSubscriptions(lsSubscriptions)

Returned(op) == ret'.call # ret.call /\ ret'.op = op

\* C7: createSubscription appends exactly one record, with status active,
\* startDate = now and nextBillingDate = now advanced by one billing cycle,
\* returns that record and leaves every stored record as it was.
C7_CreateAppendsOneActive ==
    [][Returned("create") =>
        LET old == Ledger
            new == Ledger'
            rec == new[Len(new)]
        IN  /\ Len(new) = Len(old) + 1
            /\ SubSeq(new, 1, Len(old)) = old
            /\ rec.status = "active"
            /\ rec.startDate = now
            /\ rec.nextBillingDate =
                   calculateNextBillingDate(now, ret'.args.billingCycle)
            /\ rec.planId = ret'.args.planId
            /\ rec.walletAddress = ret'.args.walletAddress
            /\ ret'.value = rec]_vars

\* a second record has been created after a first one, and returned
C7_Witness ==
    /\ ret.op = "create"
    /\ Len(Ledger) = 2
    /\ ret.value = Ledger[2]
    /\ Ledger[1].nextBillingDate # Ledger[2].nextBillingDate

\* C8 (as claimed): all records of the ledger have pairwise distinct ids,
\* also when two are created within the same millisecond.
C8_DistinctIds ==
    \A i, j \in 1 .. Len(Ledger) : i # j => Ledger[i].id # Ledger[j].id

\* C9: recordPayment on an existing id sets that record's lastPaymentTx and
\* puts its nextBillingDate one cycle after the call time, returns the record
\* and changes no other; on an unknown id it returns null and changes nothing.
C9_RecordPaymentUpdatesOne ==
    [][Returned("recordPayment") =>
        LET old == Ledger
            new == Ledger'
            i == findIndex(old, ret'.id)
        IN  IF \E k \in 1 .. Len(old) : old[k].id = ret'.id
            THEN /\ Len(new) = Len(old)
                 /\ new[i].lastPaymentTx = ret'.tx
                 /\ new[i].nextBillingDate =
                        calculateNextBillingDate(now, old[i].billingCycle)
                 /\ ret'.value = Some(new[i])
                 /\ \A k \in 1 .. Len(old) : k # i => new[k] = old[k]
            ELSE /\ ret'.value = NULL
                 /\ lsSubscriptions' = lsSubscriptions]_vars

\* a payment was recorded on one of two stored records
C9_Witness ==
    /\ ret.op = "recordPayment"
    /\ ret.value # NULL
    /\ Len(Ledger) = 2
    /\ TheVal(ret.value).lastPaymentTx = ret.tx

\* C10: recordPayment on a due subscription moves nextBillingDate strictly
\* forward, to after the call time, and the subscription is then not due.
C10_PaymentClearsDue ==
    [][Returned("recordPayment") =>
        LET old == Ledger
            new == Ledger'
            i == findIndex(old, ret'.id)
        IN  (i # 0 /\ isPaymentDue(old[i], now)) =>
                /\ new[i].nextBillingDate > old[i].nextBillingDate
                /\ new[i].nextBillingDate > now
                /\ ~isPaymentDue(new[i], now)]_vars

\* the one record created was due when the payment was recorded
C10_Witness ==
    /\ calls = 2
    /\ ret.op = "recordPayment"
    /\ ret.value # NULL
    /\ TheVal(ret.value).status = "active"
    /\ now >= calculateNextBillingDate(TheVal(ret.value).startDate,
                                       TheVal(ret.value).billingCycle)
    /\ TheVal(ret.value).nextBillingDate > now

-----------------------------------------------------------------------------
(* src/hooks/use-subscription.ts: subscribe, cancel and processPayment.    *)
(* A call that awaits a promise is held in inflight with what its closure  *)
(* captured (the wallet) and the await it stands at: "build"               *)
(* (buildPaymentInstruction) or "sign" (signAndSendTransaction).           *)

\* merchant addresses a caller can pass; new PublicKey() throws on the second
MerchantAddresses == {DEMO_MERCHANT_ADDRESS, "not-base58"}

PlanOf(planId) == CHOOSE p \in DEMO_PLANS : p.id = planId

Returns(c, op, value) == ret' = [call |-> c, op |-> op, value |-> value]

\* subscribe(planId, merchantAddress) up to its first await
subscribe(planId, merchantAddress) ==
    /\ calls < MaxCalls
    /\ Cardinality(inflight) < MaxInFlight
    /\ Len(loadSubscriptions(lsSubscriptions))
         + Cardinality({c \in inflight : c.kind = "subscribe"}) < MaxPageSubs
    /\ calls' = calls + 1
    /\ IF smartWalletPubkey = NULL \/ ~isConnected
       THEN /\ Returns(calls + 1, "subscribe", NULL)
            /\ UNCHANGED <<isLoading, inflight>>
       ELSE IF planId \notin PlanIds
       THEN /\ Returns(calls + 1, "subscribe", NULL)
            /\ UNCHANGED <<isLoading, inflight>>
       ELSE IF merchantAddress # DEMO_MERCHANT_ADDRESS
       THEN \* new PublicKey(merchantAddress) throws: catch, finally
            /\ Returns(calls + 1, "subscribe", NULL)
            /\ isLoading' = FALSE
            /\ UNCHANGED inflight
       ELSE /\ isLoading' = TRUE
            /\ inflight' = inflight \cup
                 {[call |-> calls + 1, kind |-> "subscribe", planId |-> planId,
                   subId |-> UnknownId, merchant |-> merchantAddress,
                   wallet |-> smartWalletPubkey, stage |-> "build"]}
            /\ UNCHANGED ret
    /\ UNCHANGED <<now, ticks, page, elsewhere, transferVars, lsSubscriptions, subscriptions, walletVars,
                   sessionVars>>

\* cancel(subscriptionId): no await inside, so it runs to its end
cancel(subscriptionId) ==
    /\ calls < MaxCalls
    /\ calls' = calls + 1
    /\ LET r == cancelSubscription(lsSubscriptions, subscriptionId)
       IN  /\ lsSubscriptions' = r.stored
           /\ subscriptions' = IF r.value
                               THEN refresh(r.stored, smartWalletPubkey)
                               ELSE subscriptions
           /\ Returns(calls + 1, "cancel", r.value)
    /\ isLoading' = FALSE
    /\ UNCHANGED <<now, ticks, page, elsewhere, transferVars, inflight, walletVars, sessionVars>>

\* processPayment(subscriptionId) up to its first await
processPayment(subscriptionId) ==
    /\ calls < MaxCalls
    /\ Cardinality(inflight) < MaxInFlight
    /\ calls' = calls + 1
    /\ LET index == findIndex(subscriptions, subscriptionId)
       IN  IF smartWalletPubkey = NULL \/ ~isConnected
           THEN /\ Returns(calls + 1, "processPayment", NULL)
                /\ UNCHANGED <<isLoading, inflight>>
           ELSE IF index = 0
           THEN /\ Returns(calls + 1, "processPayment", NULL)
                /\ UNCHANGED <<isLoading, inflight>>
           ELSE IF subscriptions[index].status # "active"
           THEN /\ Returns(calls + 1, "processPayment", NULL)
                /\ UNCHANGED <<isLoading, inflight>>
           ELSE /\ isLoading' = TRUE
                /\ inflight' = inflight \cup
                     {[call |-> calls + 1, kind |-> "processPayment",
                       planId |-> subscriptions[index].planId,
                       subId |-> subscriptionId,
                       merchant |-> subscriptions[index].merchantAddress,
                       wallet |-> smartWalletPubkey, stage |-> "build"]}
                /\ UNCHANGED ret
    /\ UNCHANGED <<now, ticks, page, elsewhere, transferVars, lsSubscriptions, subscriptions, walletVars,
                   sessionVars>>

\* The continuation after buildPaymentInstruction that already writes the
\* subscription record, before anything is signed.
BuildResolve_RecordsEarly ==
    \E c \in inflight, rnd \in RandomSuffixes :
      /\ c.stage = "build"
      /\ inflight' = (inflight \ {c}) \cup {[c EXCEPT !.stage = "sign"]}
      /\ IF c.kind = "subscribe"
         THEN lsSubscriptions' =
                createSubscription(lsSubscriptions,
                    [planId |-> c.planId, walletAddress |-> TheVal(c.wallet),
                     merchantAddress |-> c.merchant,
                     amount |-> PlanOf(c.planId).amount,
                     billingCycle |-> PlanOf(c.planId).billingCycle,
                     paymentTx |-> undefined], now, rnd).stored
         ELSE UNCHANGED lsSubscriptions
      /\ UNCHANGED <<now, ticks, calls, ret, page, elsewhere, transferVars, subscriptions, isLoading,
                     walletVars, sessionVars>>

\* buildPaymentInstruction resolved: signAndSendTransaction is called
BuildResolve ==
    \E c \in inflight :
      /\ c.stage = "build"
      /\ inflight' = (inflight \ {c}) \cup {[c EXCEPT !.stage = "sign"]}
      /\ UNCHANGED <<now, ticks, calls, ret, page, elsewhere, transferVars, lsSubscriptions,
                     subscriptions, isLoading, walletVars, sessionVars>>

\* the awaited promise rejected (building, signing or sending failed):
\* catch, then finally
CallReject ==
    \E c \in inflight :
      /\ inflight' = inflight \ {c}
      /\ Returns(c.call, c.kind, NULL)
      /\ isLoading' = FALSE
      /\ UNCHANGED <<now, ticks, calls, page, elsewhere, transferVars, lsSubscriptions, subscriptions,
                     walletVars, sessionVars>>

\* subscribe after signAndSendTransaction returned a signature
SubscribeSigned ==
    \E c \in inflight, signature \in {"sig1"}, rnd \in RandomSuffixes :
      /\ c.kind = "subscribe"
      /\ c.stage = "sign"
      /\ LET r == createSubscription(lsSubscriptions,
                    [planId |-> c.planId, walletAddress |-> TheVal(c.wallet),
                     merchantAddress |-> c.merchant,
                     amount |-> PlanOf(c.planId).amount,
                     billingCycle |-> PlanOf(c.planId).billingCycle,
                     paymentTx |-> signature], now, rnd)
         IN  /\ lsSubscriptions' = r.stored
             /\ subscriptions' = refresh(r.stored, c.wallet)
             /\ Returns(c.call, "subscribe", Some(r.value.id))
      /\ inflight' = inflight \ {c}
      /\ isLoading' = FALSE
      /\ UNCHANGED <<now, ticks, calls, page, elsewhere, transferVars, walletVars, sessionVars>>

\* processPayment after signAndSendTransaction returned a signature
PaymentSigned ==
    \E c \in inflight, signature \in {"sig2"} :
      /\ c.kind = "processPayment"
      /\ c.stage = "sign"
      /\ LET r == recordPayment(lsSubscriptions, c.subId, signature, now)
         IN  /\ lsSubscriptions' = r.stored
             /\ subscriptions' = refresh(r.stored, c.wallet)
      /\ Returns(c.call, "processPayment", Some(signature))
      /\ inflight' = inflight \ {c}
      /\ isLoading' = FALSE
      /\ UNCHANGED <<now, ticks, calls, page, elsewhere, transferVars, walletVars, sessionVars>>

HookTickSteps == {31 * DAY_MS}

HookTick ==
    /\ Tick(HookTickSteps)
    /\ UNCHANGED <<calls, ret, page, elsewhere, transferVars, lsSubscriptions, walletVars, sessionVars,
                   hookVars>>

\* the browser opened on the subscription page: useSubscription mounted
InitSubscriptionPage ==
    /\ now = StartNow
    /\ lsSubscriptions = NULL
    /\ lsSession = NULL
    /\ isConnected = FALSE
    /\ smartWalletPubkey = NULL
    /\ sdkConnect = "idle"
    /\ page = "subscription"
    /\ sessionInfo = NULL
    /\ isRestoring = FALSE
    /\ pcRestore = "unmounted"
    /\ subscriptions = <<>>
    /\ isLoading = FALSE
    /\ inflight = {}
    /\ ret = NoReturn
    /\ calls = 0
    /\ ticks = 0
    /\ tabs = NoTabs
    /\ swap = NoSwapForm
    /\ toast = NoToast
    /\ bal = NoBalance
    /\ form = NoForm

-----------------------------------------------------------------------------
(* SpecHook: the hook's functions called with any argument in any state,   *)
(* as a test of useSubscription would call them.                           *)

HookSubscribe ==
    \E planId \in {"basic", "no-such-plan"}, m \in MerchantAddresses :
        subscribe(planId, m)

HookCancel == \E id \in KnownIds \cup {UnknownId} : cancel(id)

HookProcessPayment == \E id \in KnownIds \cup {UnknownId} : processPayment(id)

NextHook ==
    \/ HandleConnect
    \/ ButtonConnectResolve
    \/ ButtonConnectReject
    \/ HandleDisconnect
    \/ HookSubscribe
    \/ HookCancel
    \/ HookProcessPayment
    \/ BuildResolve
    \/ CallReject
    \/ SubscribeSigned
    \/ PaymentSigned
    \/ HookTick

SpecHook == InitSubscriptionPage /\ [][NextHook]_vars

-----------------------------------------------------------------------------
(* SpecPage: the hook driven through the subscription page, whose buttons  *)
(* are enabled as PlanCard and SubscriptionManager render them.            *)

\* SubscriptionDemoPage.getActivePlanId
getActivePlanId ==
    IF \E i \in 1 .. Len(subscriptions) : subscriptions[i].status = "active"
    THEN Some(subscriptions[CHOOSE i \in 1 .. Len(subscriptions) :
                /\ subscriptions[i].status = "active"
                /\ \A j \in 1 .. (i - 1) : subscriptions[j].status # "active"].planId)
    ELSE NULL

\* the records SubscriptionManager lists: the active ones, while connected
ListedSubscriptions ==
    IF isConnected
    THEN {subscriptions[i] : i \in {j \in 1 .. Len(subscriptions) :
                                        subscriptions[j].status = "active"}}
    ELSE {}

\* PlanCard's button: disabled={disabled || isLoading || isCurrentPlan}
ClickSubscribe ==
    \E plan \in DEMO_PLANS :
      /\ isConnected
      /\ ~isLoading
      /\ getActivePlanId # Some(plan.id)
      /\ subscribe(plan.id, DEMO_MERCHANT_ADDRESS)

\* "Cancel Subscription" in the dialog of a listed record
ClickCancel == \E sub \in ListedSubscriptions : cancel(sub.id)

\* "Pay Now" of a listed record that is due: disabled={isLoading}
ClickPayNow ==
    \E sub \in ListedSubscriptions :
      /\ isPaymentDue(sub, now)
      /\ ~isLoading
      /\ processPayment(sub.id)

NextPage ==
    \/ HandleConnect
    \/ ButtonConnectResolve
    \/ ButtonConnectReject
    \/ HandleDisconnect
    \/ ClickSubscribe
    \/ ClickCancel
    \/ ClickPayNow
    \/ BuildResolve
    \/ CallReject
    \/ SubscribeSigned
    \/ PaymentSigned
    \/ HookTick

SpecPage == InitSubscriptionPage /\ [][NextPage]_vars

-----------------------------------------------------------------------------
(* Claims about useSubscription                                            *)

C6_LoadingWhileInFlight == inflight # {} => isLoading

-----------------------------------------------------------------------------
(* Further claims about the ledger functions, under SpecLedger *)

\* C11: cancelSubscription on an id that a record carries sets the status of
\* the (first) record with that id to cancelled, leaves its other fields and
\* all other records as they were and returns true; on an id no record
\* carries it returns false and the stored ledger is exactly as before.
C11_CancelMarksOneRecord ==
    [][Returned("cancel") =>
        LET old == Ledger
            new == Ledger'
            i == findIndex(old, ret'.id)
        IN  IF \E k \in 1 .. Len(old) : old[k].id = ret'.id
            THEN /\ ret'.value = TRUE
                 /\ Len(new) = Len(old)
                 /\ new[i] = [old[i] EXCEPT !.status = "cancelled"]
                 /\ \A k \in 1 .. Len(old) : k # i => new[k] = old[k]
            ELSE /\ ret'.value = FALSE
                 /\ lsSubscriptions' = lsSubscriptions]_vars

\* the first of two stored records was cancelled, the second is still active
C11_Witness ==
    /\ ret.op = "cancel"
    /\ ret.value = TRUE
    /\ Len(Ledger) = 2
    /\ Ledger[1].id = ret.id
    /\ Ledger[1].status = "cancelled"
    /\ Ledger[2].status = "active"
    /\ Ledger[2].id # ret.id

\* C12: over any step of create, cancel and recordPayment no record leaves
\* the ledger or moves, and a record's status changes only from active to
\* cancelled or from active to expired: a cancelled or expired record keeps
\* its status.
C12_StatusOnlyLeavesActive ==
    [][/\ Len(Ledger') >= Len(Ledger)
       /\ \A k \in 1 .. Len(Ledger) :
            /\ Ledger'[k].id = Ledger[k].id
            /\ Ledger'[k].status # Ledger[k].status =>
                 /\ Ledger[k].status = "active"
                 /\ Ledger'[k].status \in {"cancelled", "expired"}]_vars

\* a payment was recorded on a record that had been cancelled, and the
\* record is still cancelled
C12_Witness ==
    /\ ret.op = "recordPayment"
    /\ ret.value # NULL
    /\ TheVal(ret.value).status = "cancelled"
    /\ TheVal(ret.value).lastPaymentTx = ret.tx
    /\ \E k \in 1 .. Len(Ledger) : Ledger[k] = TheVal(ret.value)

\* C13: each record's nextBillingDate is one billing cycle after the later
\* of its start date and the time of its last recorded payment.  Stated over
\* the steps that establish and keep it: a created record is due one cycle
\* after its start date, which is the time of creation; a recorded payment
\* puts the due date one cycle after the payment time, which is not before
\* the start date; and no other step changes a start date or a due date.
C13_DueOneCycleAfterLatest ==
    [][/\ Returned("create") =>
            LET rec == Ledger'[Len(Ledger')]
            IN  /\ rec.startDate = now
                /\ rec.nextBillingDate =
                     calculateNextBillingDate(rec.startDate, rec.billingCycle)
       /\ \A k \in 1 .. Len(Ledger) :
            /\ Ledger'[k].startDate = Ledger[k].startDate
            /\ Ledger'[k].billingCycle = Ledger[k].billingCycle
            /\ Ledger[k].startDate <= now
            /\ IF Returned("recordPayment") /\ k = findIndex(Ledger, ret'.id)
               THEN Ledger'[k].nextBillingDate =
                      calculateNextBillingDate(
                          IF now >= Ledger[k].startDate
                          THEN now ELSE Ledger[k].startDate,
                          Ledger[k].billingCycle)
               ELSE Ledger'[k].nextBillingDate = Ledger[k].nextBillingDate]_vars

\* a payment was recorded later than the start date: the record is due one
\* cycle after the payment, no longer one cycle after its start
C13_Witness ==
    /\ ret.op = "recordPayment"
    /\ ret.value # NULL
    /\ now > TheVal(ret.value).startDate
    /\ TheVal(ret.value).nextBillingDate =
         calculateNextBillingDate(now, TheVal(ret.value).billingCycle)
    /\ TheVal(ret.value).nextBillingDate #
         calculateNextBillingDate(TheVal(ret.value).startDate,
                                  TheVal(ret.value).billingCycle)
    /\ Ledger[findIndex(Ledger, ret.id)] = TheVal(ret.value)

-----------------------------------------------------------------------------
(* SpecStatus: records are created and cancelled, the clock advances, and  *)
(* the subscription list renders the status of a stored record             *)
(* (getSubscriptionStatus: isPaymentDue and getDaysUntilBilling).          *)

\* clock steps that reach the hour before a due date, and the due date
StatusTickSteps ==
    {1, DAY_MS \div 2, 7 * DAY_MS - 1, 31 * DAY_MS - 1, 366 * DAY_MS - 1}

StatusTick ==
    /\ Tick(StatusTickSteps)
    /\ UNCHANGED <<lsSubscriptions, ret, calls>>
    /\ LedgerUnchanged

\* useSubscription.getSubscriptionStatus(subscription) on a stored record
GetSubscriptionStatus ==
    /\ \E k \in 1 .. Len(loadSubscriptions(lsSubscriptions)) :
         LET subscription == loadSubscriptions(lsSubscriptions)[k]
         IN  ret' = [call |-> calls, op |-> "getSubscriptionStatus",
                     subscription |-> subscription, t |-> now,
                     isDue |-> isPaymentDue(subscription, now),
                     daysUntil |-> getDaysUntilBilling(subscription, now)]
    /\ UNCHANGED <<lsSubscriptions, calls, now, ticks>>
    /\ LedgerUnchanged

\* createSubscription as subscribe calls it: with the payment's signature
StatusCreate == LibCreate /\ ret'.args.paymentTx # undefined

NextStatus == StatusCreate \/ LibCancel \/ StatusTick \/ GetSubscriptionStatus

SpecStatus == Init /\ [][NextStatus]_vars

\* C14: isPaymentDue of a record is true exactly when the record is active
\* and the clock has reached its nextBillingDate; so a record is not due at
\* the instant it was created, and a cancelled record is never due.
C14_DueIffActiveAndReached ==
    ret.op = "getSubscriptionStatus" =>
        /\ ret.isDue = (/\ ret.subscription.status = "active"
                        /\ ret.t >= ret.subscription.nextBillingDate)
        /\ ret.t = ret.subscription.startDate => ~ret.isDue
        /\ ret.subscription.status = "cancelled" => ~ret.isDue

\* a cancelled record was tested at or after its due date and found not due
C14_Witness ==
    /\ ret.op = "getSubscriptionStatus"
    /\ ret.subscription.status = "cancelled"
    /\ ret.t >= ret.subscription.nextBillingDate
    /\ ~ret.isDue

\* C16: getDaysUntilBilling is max(0, ceil((nextBillingDate - now) / dayMs)):
\* it is never negative, it is 0 exactly when the clock has reached
\* nextBillingDate, and otherwise it is the least number of whole days that
\* covers the time left.
C16_DaysUntilIsCeilOrZero ==
    ret.op = "getSubscriptionStatus" =>
        LET diff == ret.subscription.nextBillingDate - ret.t
        IN  /\ ret.daysUntil >= 0
            /\ (ret.daysUntil = 0) = (ret.t >= ret.subscription.nextBillingDate)
            /\ diff > 0 => /\ ret.daysUntil * DAY_MS >= diff
                           /\ (ret.daysUntil - 1) * DAY_MS < diff

\* the time left was not a whole number of days and was rounded up
C16_Witness ==
    /\ ret.op = "getSubscriptionStatus"
    /\ ret.subscription.nextBillingDate > ret.t
    /\ (ret.subscription.nextBillingDate - ret.t) % DAY_MS # 0
    /\ ret.daysUntil * DAY_MS > ret.subscription.nextBillingDate - ret.t

\* C15 (as claimed): the due date of a record just created with a monthly
\* cycle lies in the calendar month following its start month, on the start
\* date's day of the month or, when that month is shorter, on its last day,
\* at the same time of day; weekly is exactly 7 days later and yearly is the
\* same month (and day, clamped in the same way) of the following year.
C15_NextMonthSameDayClamped ==
    ret.op = "create" =>
        LET T == ret.value.startDate
            N == ret.value.nextBillingDate
            y == getFullYear(T)
            m == getMonth(T)
            d == getDate(T)
            Clamped(yy, mm) == IF d <= DaysInMonth(yy, mm)
                               THEN d ELSE DaysInMonth(yy, mm)
        IN  /\ TimeOfDay(N) = TimeOfDay(T)
            /\ ret.args.billingCycle = "weekly" => N = T + 7 * DAY_MS
            /\ ret.args.billingCycle = "monthly" =>
                 /\ getMonth(N) = (m + 1) % 12
                 /\ getFullYear(N) = y + ((m + 1) \div 12)
                 /\ getDate(N) = Clamped(getFullYear(N), getMonth(N))
            /\ ret.args.billingCycle = "yearly" =>
                 /\ getFullYear(N) = y + 1
                 /\ getMonth(N) = m
                 /\ getDate(N) = Clamped(y + 1, m)

-----------------------------------------------------------------------------
(* Further claims about useSession, under SpecSession *)

\* C17: whenever the save effect runs (on the session page the wallet has
\* become connected, or connected with another wallet), loadSession on what
\* saveSession stored returns a record with connected true, the timestamp
\* of the save and the address of the connected wallet, whatever was stored
\* before; and every record that a step stores reads back in that way.
C17_SaveThenLoadRoundTrip ==
    [][/\ (/\ page = "session"
           /\ isConnected' /\ smartWalletPubkey' # NULL
           /\ <<isConnected', smartWalletPubkey'>> #
                <<isConnected, smartWalletPubkey>>) =>
            /\ loadSession(lsSession') # NULL
            /\ TheVal(loadSession(lsSession')) =
                 [connected |-> TRUE, timestamp |-> now,
                  walletAddress |-> TheVal(smartWalletPubkey')]
            /\ sessionInfo' = loadSession(lsSession')
       /\ (lsSession' # lsSession /\ lsSession' # NULL) =>
            /\ TheVal(loadSession(lsSession')).connected
            /\ TheVal(loadSession(lsSession')).walletAddress =
                 TheVal(smartWalletPubkey')]_vars

\* a restored session was saved again: the record of the earlier connection
\* was replaced by one with the time of the reconnection
C17_Witness ==
    /\ pcRestore = "connected"
    /\ isConnected
    /\ now > StartNow
    /\ loadSession(lsSession) =
         Some([connected |-> TRUE, timestamp |-> now,
               walletAddress |-> TheVal(smartWalletPubkey)])

-----------------------------------------------------------------------------
(* SpecStartup: the session page used while something other than the       *)
(* application (another script of the origin, the developer tools, an      *)
(* older build) writes the two storage keys; the page is loaded with       *)
(* whatever is stored, and the ledger is read with loadSubscriptions.      *)

ForeignSetSession ==
    /\ \E text \in ForeignTexts : lsSession' = Some(text)
    /\ UNCHANGED <<now, ticks, calls, ret, page, elsewhere, transferVars, lsSubscriptions, sessionInfo,
                   isRestoring, pcRestore, walletVars, hookVars>>

ForeignSetLedger ==
    /\ \E text \in ForeignTexts : lsSubscriptions' = Some(<<text>>)
    /\ UNCHANGED <<now, ticks, calls, ret, page, elsewhere, transferVars, sessionVars, walletVars,
                   hookVars>>

\* loadSubscriptions() called on what is stored
LoadSubscriptionsCall ==
    /\ ret' = [call |-> calls, op |-> "loadSubscriptions",
               stored |-> lsSubscriptions,
               value |-> loadSubscriptions(lsSubscriptions)]
    /\ UNCHANGED <<now, ticks, calls, page, elsewhere, transferVars, lsSubscriptions, sessionVars,
                   walletVars, hookVars>>

NextStartup ==
    \/ HandleConnect
    \/ ButtonConnectResolve
    \/ ButtonConnectReject
    \/ HandleDisconnect
    \/ RestoreConnectResolve
    \/ RestoreConnectReject
    \/ ClearSessionClick
    \/ Reload
    \/ SessionTick
    \/ ForeignSetSession
    \/ ForeignSetLedger
    \/ LoadSubscriptionsCall

SpecStartup == Init /\ [][NextStartup]_vars

\* C18 (as claimed): a page load that finds an expired or a malformed
\* session record ends with no session shown, no connect() pending and
\* isRestoring false, the expired record being removed; and loadSubscriptions
\* on a malformed stored ledger returns the empty ledger.
C18_InvalidStoredDataIsAbsent ==
    [][/\ (/\ Reload
           /\ lsSession # NULL
           /\ ~isValidSession(loadSession(lsSession), now)) =>
            /\ sessionInfo' = NULL
            /\ sdkConnect' = "idle"
            /\ ~isRestoring'
            /\ ~IsForeign(TheVal(lsSession)) => lsSession' = NULL
       /\ (/\ ret'.op = "loadSubscriptions"
           /\ ret'.stored # NULL
           /\ IsForeignLedger(TheVal(ret'.stored))) =>
            ret'.value = <<>>]_vars

-----------------------------------------------------------------------------
(* SpecTabs: two browser tabs of the application call the ledger functions *)
(* on the same localStorage.  Each function reads the key                  *)
(* (loadSubscriptions), changes its copy and writes the key                *)
(* (saveSubscriptions); the tabs run in parallel and nothing locks the     *)
(* key, so the read and the write of one call are two steps between which  *)
(* the other tab may read and write.                                       *)

TabArgs == {a \in LedgerArgs : a.paymentTx # undefined}

\* what the call a tab is in computes from the text it read
TabResult(call) ==
    CASE call.kind = "create" ->
           createSubscription(call.read, call.a, call.t, call.rnd)
      [] call.kind = "cancel" ->
           cancelSubscription(call.read, call.id)
      [] call.kind = "recordPayment" ->
           recordPayment(call.read, call.id, "sig2", call.t)

\* whether the call reaches saveSubscriptions
TabWrites(call) ==
    CASE call.kind = "create" -> TRUE
      [] call.kind = "cancel" -> TabResult(call).value
      [] call.kind = "recordPayment" -> TabResult(call).value # NULL

\* a tab enters a ledger function, which runs up to loadSubscriptions()
TabLoad(tab) ==
    /\ calls < MaxCalls
    /\ tabs[tab].pc # "loaded"
    /\ calls' = calls + 1
    /\ \/ /\ Len(loadSubscriptions(lsSubscriptions))
               + Cardinality({o \in Tabs : /\ tabs[o].pc = "loaded"
                                           /\ tabs[o].kind = "create"})
               < MaxSubs
          /\ \E a \in TabArgs, rnd \in RandomSuffixes :
               tabs' = [tabs EXCEPT ![tab] =
                          [pc |-> "loaded", call |-> calls + 1,
                           kind |-> "create", a |-> a, rnd |-> rnd,
                           t |-> now, read |-> lsSubscriptions]]
       \/ \E id \in KnownIds \cup {UnknownId} :
               tabs' = [tabs EXCEPT ![tab] =
                          [pc |-> "loaded", call |-> calls + 1,
                           kind |-> "cancel", id |-> id,
                           t |-> now, read |-> lsSubscriptions]]
       \/ \E id \in KnownIds \cup {UnknownId} :
               tabs' = [tabs EXCEPT ![tab] =
                          [pc |-> "loaded", call |-> calls + 1,
                           kind |-> "recordPayment", id |-> id,
                           t |-> now, read |-> lsSubscriptions]]
    /\ UNCHANGED <<now, ticks, ret, lsSubscriptions>>
    /\ UNCHANGED <<walletVars, sessionVars, hookVars, page, swap, toast,
                   transferVars>>

\* The rest of the function run against what is stored at that moment, as
\* if the read and the write were one step.
TabSave_Rereads(tab) ==
    /\ tabs[tab].pc = "loaded"
    /\ LET call == [tabs[tab] EXCEPT !.read = lsSubscriptions]
       IN  /\ lsSubscriptions' = IF TabWrites(call)
                                 THEN TabResult(call).stored
                                 ELSE lsSubscriptions
           /\ ret' = [call |-> call.call, op |-> call.kind, tab |-> tab,
                      value |-> TabResult(call).value]
    /\ tabs' = [tabs EXCEPT ![tab].pc = "saved"]
    /\ UNCHANGED <<now, ticks, calls>>
    /\ UNCHANGED <<walletVars, sessionVars, hookVars, page, swap, toast,
                   transferVars>>

\* the rest of the function: the copy is changed and saveSubscriptions(copy)
\* writes it, unless the function returns before (no record with the id)
TabSave(tab) ==
    /\ tabs[tab].pc = "loaded"
    /\ LET call == tabs[tab]
       IN  /\ lsSubscriptions' = IF TabWrites(call)
                                 THEN TabResult(call).stored
                                 ELSE lsSubscriptions
           /\ ret' = [call |-> call.call, op |-> call.kind, tab |-> tab,
                      value |-> TabResult(call).value]
    /\ tabs' = [tabs EXCEPT ![tab].pc = "saved"]
    /\ UNCHANGED <<now, ticks, calls>>
    /\ UNCHANGED <<walletVars, sessionVars, hookVars, page, swap, toast,
                   transferVars>>

TabLoads == \E tab \in Tabs : TabLoad(tab)

TabSaves == \E tab \in Tabs : TabSave(tab)

NextTabs == TabLoads \/ TabSaves

SpecTabs == Init /\ [][NextTabs]_vars

\* C19: when two tabs have read the same stored ledger and both have saved,
\* the ledger is what the tab that saved last computed from its own read:
\* the last write wins, whatever the other tab wrote in between.
C19_LastWriteWins ==
    \A a, b \in Tabs :
        (/\ a # b
         /\ tabs[a].pc = "saved"
         /\ tabs[b].pc = "saved"
         /\ tabs[a].read = tabs[b].read
         /\ TabWrites(tabs[a])
         /\ TabWrites(tabs[b])
         /\ ret.op # "none"
         /\ ret.call = tabs[b].call) =>
            lsSubscriptions = TabResult(tabs[b]).stored

\* both tabs created a subscription from the same read: both calls returned
\* their record, and the record of the tab that saved first is not stored
C19_Witness ==
    \E a, b \in Tabs :
        /\ a # b
        /\ tabs[a].pc = "saved"
        /\ tabs[b].pc = "saved"
        /\ tabs[a].read = tabs[b].read
        /\ tabs[a].kind = "create"
        /\ tabs[b].kind = "create"
        /\ ret.op = "create"
        /\ ret.call = tabs[b].call
        /\ \A k \in 1 .. Len(loadSubscriptions(lsSubscriptions)) :
             loadSubscriptions(lsSubscriptions)[k].id #
               TabResult(tabs[a]).value.id

\* ---------------------------------------------------------------------
\* SwapForm: the swap page's form, its debounced quote fetch and the swap
\* ---------------------------------------------------------------------

\* seconds a quote of the aggregator stays valid
QUOTE_VALIDITY_S == 30

MaxQuoteAge == 45   \* seconds a held quote is followed for

\* getDefaultTokens('devnet'): the tokens offered, by symbol
tokens == <<"SOL", "USDC">>

TokenSet == {tokens[i] : i \in 1 .. Len(tokens)}

decimals(token) == IF token = "SOL" THEN 9 ELSE 6

\* what the user types into the amount field
AmountTexts == {"", "0", "1"}

\* parseFloat of the amount field; the empty text is NaN, shown as -1
parseFloat(text) ==
    CASE text = "1" -> 1
      [] text = "0" -> 0
      [] OTHER -> -1

Pow10(n) == IF n = 9 THEN 1000000000 ELSE 1000000

parseTokenAmount(amount, dec) ==
    IF parseFloat(amount) < 0 THEN 0 ELSE parseFloat(amount) * Pow10(dec)

\* the state of SwapForm right after it is mounted: the debounce effect
\* has set its first timer
Closure(s) ==
    [inputToken |-> s.inputToken, outputToken |-> s.outputToken,
     inputAmount |-> s.inputAmount]

MountedSwapForm ==
    [mounted |-> TRUE,
     inputToken |-> tokens[1],
     outputToken |-> tokens[2],
     inputAmount |-> "",
     quote |-> NULL,
     sinceQuote |-> 0,
     isLoadingQuote |-> FALSE,
     isSwapping |-> FALSE,
     timer |-> Some([inputToken |-> tokens[1], outputToken |-> tokens[2],
                     inputAmount |-> ""]),
     fetches |-> <<>>,
     pcSwap |-> "idle",
     sent |-> NULL]

\* a render after state changes: the debounce effect clears its timer and
\* sets a new one when fetchQuote changed, that is when a dependency did
Rerender(s) ==
    IF Closure(s) # Closure(swap)
    THEN [s EXCEPT !.timer = Some(Closure(s))]
    ELSE s

\* setQuote: the form holds the value; the age of a held quote restarts
SetQuote(s, q) == [s EXCEPT !.quote = q, !.sinceQuote = 0]

\* fetchQuote as the callback c of some render, up to its await
fetchQuote(s, c) ==
    IF c.inputAmount = "" \/ parseFloat(c.inputAmount) <= 0
    THEN SetQuote(s, NULL)
    ELSE [s EXCEPT !.isLoadingQuote = TRUE,
                   !.fetches = Append(@,
                       [inputMint |-> c.inputToken,
                        outputMint |-> c.outputToken,
                        amount |-> parseTokenAmount(c.inputAmount,
                                                    decimals(c.inputToken)),
                        slippageBps |-> 50])]

CanFetch(c) ==
    \/ c.inputAmount = "" \/ parseFloat(c.inputAmount) <= 0
    \/ Len(swap.fetches) < MaxInFlight

RemoveAt(seq, i) == [k \in 1 .. Len(seq) - 1 |-> IF k < i THEN seq[k] ELSE seq[k + 1]]

\* what an await can reject with: an Error carrying a message, or a value
\* that is no Error
ErrorOf(message) == [isError |-> TRUE, message |-> message]

NonError == [isError |-> FALSE, message |-> <<"rejected">>]

\* bodies of the non-2xx answers of the quote and swap endpoints
ResponseBodies == {"Could not find any route"}

\* fetch itself rejects when the network is down
NetworkError == ErrorOf(<<"Failed to fetch">>)

\* getQuote, its outcomes that throw
getQuoteErrors ==
    {ErrorOf(<<"Failed to fetch quote: ", body>>) : body \in ResponseBodies}
      \cup {NetworkError}

\* getSwapTransaction, its outcomes that throw
getSwapTransactionErrors ==
    {ErrorOf(<<"Failed to build swap transaction: ", body>>) :
        body \in ResponseBodies}
      \cup {NetworkError}

\* the answer of the swap endpoint is no transaction
DeserializeError == ErrorOf(<<"Reached end of buffer unexpectedly">>)

\* signAndSendTransaction, what the wallet rejects with
signAndSendErrors == {ErrorOf(<<"User rejected">>), NonError}

ErrorToast(message, error) ==
    [kind |-> "error", message |-> message,
     caught |-> IF error.isError THEN error.message ELSE <<>>]

WalletUnchanged ==
    UNCHANGED <<now, ticks, calls, ret, page, tabs, lsSubscriptions,
                walletVars, sessionVars, hookVars, transferVars>>

\* the amount field, enabled when connected and not swapping
SetInputAmount ==
    /\ swap.mounted /\ isConnected /\ ~swap.isSwapping
    /\ \E text \in AmountTexts \ {swap.inputAmount} :
         swap' = Rerender([swap EXCEPT !.inputAmount = text])
    /\ toast' = NoToast
    /\ WalletUnchanged

\* the two token selectors, enabled when not swapping
SetInputToken ==
    /\ swap.mounted /\ ~swap.isSwapping
    /\ \E token \in TokenSet \ {swap.inputToken} :
         swap' = Rerender([swap EXCEPT !.inputToken = token])
    /\ toast' = NoToast
    /\ WalletUnchanged

SetOutputToken ==
    /\ swap.mounted /\ ~swap.isSwapping
    /\ \E token \in TokenSet \ {swap.outputToken} :
         swap' = Rerender([swap EXCEPT !.outputToken = token])
    /\ toast' = NoToast
    /\ WalletUnchanged

\* the debounce timer fires and calls the fetchQuote it was set with
DebounceFires ==
    /\ swap.mounted /\ swap.timer # NULL
    /\ CanFetch(TheVal(swap.timer))
    /\ swap' = fetchQuote([swap EXCEPT !.timer = NULL], TheVal(swap.timer))
    /\ toast' = NoToast
    /\ WalletUnchanged

\* the Refresh Quote button: shown with a quote, disabled while loading
RefreshQuoteClick ==
    /\ swap.mounted /\ swap.quote # NULL /\ ~swap.isLoadingQuote
    /\ CanFetch(Closure(swap))
    /\ swap' = fetchQuote(swap, Closure(swap))
    /\ toast' = NoToast
    /\ WalletUnchanged

\* getQuote answers: the quote echoes the request
GetQuoteResolve ==
    /\ swap.mounted
    /\ \E i \in 1 .. Len(swap.fetches) :
         swap' = [SetQuote(swap, Some([inputMint |-> swap.fetches[i].inputMint,
                                       outputMint |-> swap.fetches[i].outputMint,
                                       inAmount |-> swap.fetches[i].amount]))
                    EXCEPT !.isLoadingQuote = FALSE,
                           !.fetches = RemoveAt(@, i)]
    /\ toast' = NoToast
    /\ WalletUnchanged

GetQuoteReject ==
    /\ swap.mounted
    /\ \E i \in 1 .. Len(swap.fetches) :
         swap' = [SetQuote(swap, NULL)
                    EXCEPT !.isLoadingQuote = FALSE,
                           !.fetches = RemoveAt(@, i)]
    /\ \E error \in getQuoteErrors :
         toast' = ErrorToast(<<"Failed to get swap quote">>, error)
    /\ WalletUnchanged

\* the flip button between the two tokens, enabled when not swapping
handleSwapTokens ==
    /\ swap.mounted /\ ~swap.isSwapping
    /\ swap' = Rerender(SetQuote([swap EXCEPT !.inputToken = swap.outputToken,
                                              !.outputToken = swap.inputToken,
                                              !.inputAmount = ""], NULL))
    /\ toast' = NoToast
    /\ WalletUnchanged

\* the Swap button, up to the await of getSwapTransaction
handleSwap ==
    /\ swap.mounted
    /\ isConnected /\ swap.quote # NULL
    /\ ~swap.isSwapping /\ ~swap.isLoadingQuote
    /\ IF smartWalletPubkey = NULL
       THEN /\ UNCHANGED swap
            /\ toast' = [kind |-> "error",
                         message |-> <<"Please connect wallet and get a quote first">>,
                         caught |-> <<>>]
       ELSE /\ toast' = NoToast
            /\ swap' = [swap EXCEPT
                       !.isSwapping = TRUE,
                       !.pcSwap = "getSwapTransaction",
                       !.sent = Some([quoteResponse |-> TheVal(swap.quote),
                                      userPublicKey |-> TheVal(smartWalletPubkey),
                                      age |-> swap.sinceQuote])]
    /\ WalletUnchanged

\* handleSwap after its last await: the form is reset
SwapDone(s) ==
    Rerender([SetQuote([s EXCEPT !.inputAmount = ""], NULL)
                EXCEPT !.isSwapping = FALSE, !.pcSwap = "idle",
                       !.sent = NULL])

\* getSwapTransaction answers with a legacy or a versioned transaction
GetSwapTransactionResolve ==
    /\ swap.mounted /\ swap.pcSwap = "getSwapTransaction"
    /\ \E legacy \in BOOLEAN :
         IF legacy
         THEN /\ swap' = [swap EXCEPT !.pcSwap = "signAndSendTransaction",
                                      !.sent = NULL]
              /\ toast' = NoToast
         ELSE /\ swap' = SwapDone(swap)
              /\ toast' = [kind |-> "info",
                           message |-> <<"Jupiter returns versioned transactions. Full execution requires additional SDK support.">>,
                           caught |-> <<>>]
    /\ WalletUnchanged

SignAndSendResolve ==
    /\ swap.mounted /\ swap.pcSwap = "signAndSendTransaction"
    /\ swap' = SwapDone(swap)
    /\ toast' = [kind |-> "success",
                 message |-> <<"Swap executed successfully!">>,
                 caught |-> <<>>]
    /\ WalletUnchanged

\* either await of handleSwap rejects, or the transaction does not parse
SwapReject ==
    /\ swap.mounted /\ swap.pcSwap # "idle"
    /\ swap' = [swap EXCEPT !.isSwapping = FALSE, !.pcSwap = "idle",
                            !.sent = NULL]
    /\ \E error \in IF swap.pcSwap = "getSwapTransaction"
                     THEN getSwapTransactionErrors \cup {DeserializeError}
                     ELSE signAndSendErrors :
         toast' = ErrorToast(IF error.isError
                             THEN error.message
                             ELSE <<"Swap failed. Please try again.">>,
                             error)
    /\ WalletUnchanged

\* time passes while the form holds a quote
SwapTickSteps == {15, 30}

SwapTick ==
    /\ swap.mounted /\ swap.quote # NULL
    /\ swap.sinceQuote < MaxQuoteAge
    /\ \E d \in SwapTickSteps :
         swap' = [swap EXCEPT !.sinceQuote =
                    IF @ + d > MaxQuoteAge THEN MaxQuoteAge ELSE @ + d]
    /\ toast' = NoToast
    /\ WalletUnchanged

InitSwapPage ==
    /\ now = StartNow
    /\ lsSubscriptions = NULL
    /\ lsSession = NULL
    /\ isConnected = FALSE
    /\ smartWalletPubkey = NULL
    /\ sdkConnect = "idle"
    /\ page = "swap"
    /\ sessionInfo = NULL
    /\ isRestoring = FALSE
    /\ pcRestore = "unmounted"
    /\ subscriptions = <<>>
    /\ isLoading = FALSE
    /\ inflight = {}
    /\ ret = NoReturn
    /\ calls = 0
    /\ ticks = 0
    /\ tabs = NoTabs
    /\ swap = MountedSwapForm
    /\ toast = NoToast
    /\ bal = NoBalance
    /\ form = NoForm

NextSwap ==
    \/ HandleConnect
    \/ ButtonConnectResolve
    \/ ButtonConnectReject
    \/ HandleDisconnect
    \/ SetInputAmount
    \/ SetInputToken
    \/ SetOutputToken
    \/ DebounceFires
    \/ RefreshQuoteClick
    \/ GetQuoteResolve
    \/ GetQuoteReject
    \/ handleSwapTokens
    \/ handleSwap
    \/ GetSwapTransactionResolve
    \/ SignAndSendResolve
    \/ SwapReject
    \/ SwapTick

SpecSwap == InitSwapPage /\ [][NextSwap]_vars

\* C20 (as claimed): the quote handleSwap passes to getSwapTransaction was
\* fetched or refreshed within its validity window of about 30 seconds
\* before use.  The form keeps no time of the quote and handleSwap tests
\* only that a quote is held, so a quote left on screen is sent at any age.
C20_SwapQuoteIsFresh ==
    swap.mounted /\ swap.sent # NULL
      => TheVal(swap.sent).age <= QUOTE_VALIDITY_S

\* the parts of the messages thrown for a non-2xx answer, before the body
HttpErrorPrefixes ==
    {"Failed to fetch quote: ", "Failed to build swap transaction: "}

Contains(message, part) == \E k \in 1 .. Len(message) : message[k] = part

\* C21 (as claimed): when the quote or the swap endpoint answers non-2xx,
\* the operation fails with an error whose message contains the response
\* body, and that message is what the user is shown for the operation.
\* The swap path shows error.message; fetchQuote shows a fixed text.
C21_ResponseBodySurfaced ==
    (toast.kind = "error" /\ Len(toast.caught) = 2
       /\ toast.caught[1] \in HttpErrorPrefixes)
      => Contains(toast.message, toast.caught[2])

\* C27 (as claimed): whenever SwapForm holds a quote and no quote fetch is
\* in flight or scheduled, the quote was computed for the selected input
\* token, output token and input amount, also when answers arrive out of
\* order or after a flip or a change of amount.  fetchQuote stores
\* whatever answer arrives, without comparing it to the present inputs.
C27_QuoteMatchesInputs ==
    (/\ swap.mounted /\ swap.quote # NULL
     /\ ~swap.isLoadingQuote
     /\ swap.fetches = <<>>
     /\ swap.timer = NULL)
      => /\ TheVal(swap.quote).inputMint = swap.inputToken
         /\ TheVal(swap.quote).outputMint = swap.outputToken
         /\ TheVal(swap.quote).inAmount =
              parseTokenAmount(swap.inputAmount, decimals(swap.inputToken))

\* ---------------------------------------------------------------------
\* useBalance as BalanceDisplay on the wallet page uses it
\* ---------------------------------------------------------------------

\* BalanceDisplay's default refresh interval, in milliseconds
DEFAULT_AUTO_REFRESH_MS == 30000

BalanceUnchanged ==
    UNCHANGED <<now, ticks, calls, ret, elsewhere, lsSubscriptions,
                walletVars, sessionVars, hookVars>>

\* handleSubmit of a transfer form after its await of the balance refetch:
\* the form is cleared
AfterRefetch(f, by) ==
    IF f.mounted /\ f.pc = "refetch" /\ by = "submit"
    THEN [f EXCEPT !.recipient = "", !.amount = "",
                   !.isSubmitting = FALSE, !.pc = "idle", !.seen = NULL]
    ELSE f

\* the interval calls the fetchBalance it was set with
IntervalFires ==
    /\ bal.interval # NULL
    /\ Len(bal.fetches) < MaxInFlight
    /\ bal' = fetchBalance(bal, TheVal(bal.interval), "timer")
    /\ UNCHANGED page
    /\ UNCHANGED form
    /\ BalanceUnchanged

\* the refresh icon of BalanceDisplay: shown when connected, disabled
\* while loading
RefetchClick ==
    /\ bal.mounted /\ isConnected /\ ~bal.isLoading
    /\ Len(bal.fetches) < MaxInFlight
    /\ bal' = fetchBalance(bal, WalletSeen(isConnected, smartWalletPubkey),
                           "refetch")
    /\ UNCHANGED page
    /\ UNCHANGED form
    /\ BalanceUnchanged

\* connection.getBalance answers; fetchedFor notes whose balance it is
GetBalanceResolve ==
    /\ \E i \in 1 .. Len(bal.fetches), lamports \in LamportValues :
         /\ bal' = SetBalanceState(bal,
                  [bal EXCEPT !.balanceLamports = Some(lamports),
                              !.balance = Some(lamports \div LAMPORTS_PER_SOL),
                              !.fetchedFor = Some(bal.fetches[i].wallet),
                              !.isLoading = FALSE,
                              !.fetches = RemoveAt(@, i)])
         /\ form' = AfterRefetch(form, bal.fetches[i].by)
    /\ UNCHANGED page
    /\ BalanceUnchanged

GetBalanceReject ==
    /\ \E i \in 1 .. Len(bal.fetches) :
         /\ bal' = SetBalanceState(bal,
                  [bal EXCEPT !.error = Some("Failed to fetch balance"),
                              !.isLoading = FALSE,
                              !.fetches = RemoveAt(@, i)])
         /\ form' = AfterRefetch(form, bal.fetches[i].by)
    /\ UNCHANGED page
    /\ BalanceUnchanged

\* a link away from the page: the effect cleanup clears the interval
BalanceUnmount ==
    /\ bal.mounted
    /\ bal' = [bal EXCEPT !.mounted = FALSE, !.interval = NULL]
    /\ page' = "dashboard"
    /\ UNCHANGED form
    /\ BalanceUnchanged

InitWalletPage ==
    /\ now = StartNow
    /\ lsSubscriptions = NULL
    /\ lsSession = NULL
    /\ isConnected = FALSE
    /\ smartWalletPubkey = NULL
    /\ sdkConnect = "idle"
    /\ page = "wallet"
    /\ sessionInfo = NULL
    /\ isRestoring = FALSE
    /\ pcRestore = "unmounted"
    /\ subscriptions = <<>>
    /\ isLoading = FALSE
    /\ inflight = {}
    /\ ret = NoReturn
    /\ calls = 0
    /\ ticks = 0
    /\ tabs = NoTabs
    /\ swap = NoSwapForm
    /\ toast = NoToast
    /\ bal = MountBalance(Some(DEFAULT_AUTO_REFRESH_MS), FALSE, NULL)
    /\ form = NoForm

NextBalance ==
    \/ HandleConnect
    \/ ButtonConnectResolve
    \/ ButtonConnectReject
    \/ HandleDisconnect
    \/ IntervalFires
    \/ RefetchClick
    \/ GetBalanceResolve
    \/ GetBalanceReject
    \/ BalanceUnmount

SpecBalance == InitWalletPage /\ [][NextBalance]_vars

\* a step in which the interval started a balance fetch
TimerStartsFetch ==
    /\ Len(bal'.fetches) = Len(bal.fetches) + 1
    /\ bal'.fetches[Len(bal'.fetches)].by = "timer"

\* C25: with an auto-refresh interval, polling is cancelled on unmount and
\* when the wallet disconnects: no interval is left then, and the timer
\* starts a balance fetch only while mounted and connected.
C25_PollingCancelled ==
    [][/\ TimerStartsFetch => bal.mounted /\ isConnected
       /\ (~bal'.mounted \/ ~isConnected') => bal'.interval = NULL]_vars

\* the timer has polled, and then the component went away or the wallet
\* disconnected
C25_Witness ==
    /\ bal.autoRefreshMs # NULL
    /\ ~bal.mounted \/ ~isConnected
    /\ \E i \in 1 .. Len(bal.fetches) : bal.fetches[i].by = "timer"

\* C30 (as claimed): the balance of useBalance is null whenever the wallet
\* is disconnected, and otherwise is a balance fetched for the connected
\* wallet, also when a fetch started before a disconnect or wallet change
\* resolves afterwards.  fetchBalance stores the answer of any request.
C30_BalanceOfConnectedWallet ==
    bal.mounted =>
      IF ~isConnected
      THEN bal.balance = NULL
      ELSE bal.balance # NULL => bal.fetchedFor = smartWalletPubkey

\* ---------------------------------------------------------------------
\* SolTransferForm and TokenTransferForm
\* ---------------------------------------------------------------------

\* what the user types into the recipient field
Recipients == {"", "not-an-address", "walletB"}

\* new PublicKey(address) does not throw
isValidAddress(address) == address \in Wallets

\* what the token account lookup answers with, in tokens; 0 also stands
\* for the account that does not exist yet
TokenBalanceValues == {0, 2}

\* the balance handleSubmit compares the amount with
KnownBalance ==
    IF form.kind = "sol" THEN bal.balance ELSE form.tokenBalance

FormUnchanged ==
    UNCHANGED <<now, ticks, calls, ret, page, tabs, swap, lsSubscriptions,
                walletVars, sessionVars, hookVars>>

\* the recipient and amount fields, enabled when connected and idle
SetRecipient ==
    /\ form.mounted /\ isConnected /\ ~form.isSubmitting
    /\ \E address \in Recipients \ {form.recipient} :
         form' = [form EXCEPT !.recipient = address]
    /\ UNCHANGED <<bal, toast>>
    /\ FormUnchanged

SetAmount ==
    /\ form.mounted /\ isConnected /\ ~form.isSubmitting
    /\ \E text \in AmountTexts \ {form.amount} :
         form' = [form EXCEPT !.amount = text]
    /\ UNCHANGED <<bal, toast>>
    /\ FormUnchanged

FormError(message) == [form EXCEPT !.error = Some(message)]

\* handleSubmit up to its await of signAndSendTransaction; the submit
\* button is disabled unless connected, idle and both fields filled.
\* sent is the call of signAndSendTransaction with what held at the call.
handleSubmit ==
    /\ form.mounted
    /\ isConnected /\ ~form.isSubmitting
    /\ form.recipient # "" /\ form.amount # ""
    /\ \E built \in BOOLEAN :
         form' =
           IF ~isConnected \/ smartWalletPubkey = NULL
           THEN FormError("Please connect your wallet first")
           ELSE IF form.recipient = "" \/ ~isValidAddress(form.recipient)
           THEN FormError("Please enter a valid Solana address")
           ELSE IF parseFloat(form.amount) <= 0
           THEN FormError("Please enter a valid amount")
           ELSE IF /\ KnownBalance # NULL
                   /\ parseFloat(form.amount) > TheVal(KnownBalance)
           THEN FormError("Insufficient balance")
           ELSE IF form.kind = "token" /\ ~built
           THEN FormError("Transfer failed. Please try again.")
           ELSE [form EXCEPT
                   !.error = NULL,
                   !.isSubmitting = TRUE,
                   !.pc = "sign",
                   !.seen = Some(WalletSeen(isConnected, smartWalletPubkey)),
                   !.sent = Some([connected |-> isConnected,
                                  recipient |-> form.recipient,
                                  amount |-> form.amount,
                                  balance |-> KnownBalance])]
    /\ UNCHANGED <<bal, toast>>
    /\ FormUnchanged

\* signAndSendTransaction resolves: the balance is refetched with the
\* callback of the render that submitted, and the form waits for it
FormSignResolve ==
    /\ form.mounted /\ form.pc = "sign"
    /\ toast' = [kind |-> "success", message |-> <<"Transfer successful!">>,
                 caught |-> <<>>]
    /\ IF form.kind = "sol"
       THEN /\ Len(bal.fetches) < MaxInFlight
            /\ bal' = fetchBalance(bal, TheVal(form.seen), "submit")
            /\ form' = [form EXCEPT !.pc = "refetch", !.sent = NULL]
       ELSE /\ Len(form.tokenFetches) < MaxInFlight
            /\ form' = fetchTokenBalance(
                         [form EXCEPT !.pc = "refetch", !.sent = NULL],
                         TheVal(form.seen).smartWalletPubkey, "submit")
            /\ UNCHANGED bal
    /\ FormUnchanged

FormSignReject ==
    /\ form.mounted /\ form.pc = "sign"
    /\ \E error \in signAndSendErrors :
         /\ form' = [form EXCEPT
                       !.error = Some(IF error.isError
                                      THEN error.message[1]
                                      ELSE "Transfer failed. Please try again."),
                       !.isSubmitting = FALSE, !.pc = "idle",
                       !.seen = NULL, !.sent = NULL]
         /\ toast' = ErrorToast(<<"Transfer failed">>, error)
    /\ UNCHANGED bal
    /\ FormUnchanged

\* the token account lookup of fetchTokenBalance answers
TokenBalanceResolve ==
    /\ form.mounted
    /\ \E i \in 1 .. Len(form.tokenFetches), value \in TokenBalanceValues :
         form' = AfterRefetch([form EXCEPT
                                 !.tokenBalance = Some(value),
                                 !.isLoadingBalance = FALSE,
                                 !.tokenFetches = RemoveAt(@, i)],
                              form.tokenFetches[i].by)
    /\ UNCHANGED <<bal, toast>>
    /\ FormUnchanged

TokenBalanceReject ==
    /\ form.mounted
    /\ \E i \in 1 .. Len(form.tokenFetches) :
         form' = AfterRefetch([form EXCEPT
                                 !.tokenBalance = NULL,
                                 !.isLoadingBalance = FALSE,
                                 !.tokenFetches = RemoveAt(@, i)],
                              form.tokenFetches[i].by)
    /\ UNCHANGED <<bal, toast>>
    /\ FormUnchanged

InitTransferPage ==
    /\ now = StartNow
    /\ lsSubscriptions = NULL
    /\ lsSession = NULL
    /\ isConnected = FALSE
    /\ smartWalletPubkey = NULL
    /\ sdkConnect = "idle"
    /\ page = "transfer"
    /\ sessionInfo = NULL
    /\ isRestoring = FALSE
    /\ pcRestore = "unmounted"
    /\ subscriptions = <<>>
    /\ isLoading = FALSE
    /\ inflight = {}
    /\ ret = NoReturn
    /\ calls = 0
    /\ ticks = 0
    /\ tabs = NoTabs
    /\ swap = NoSwapForm
    /\ toast = NoToast
    /\ \E kind \in FormKinds :
         /\ form = MountForm(kind, FALSE, NULL)
         /\ bal = IF kind = "sol"
                  THEN MountBalance(NULL, FALSE, NULL)
                  ELSE NoBalance

NextTransfer ==
    \/ HandleConnect
    \/ ButtonConnectResolve
    \/ ButtonConnectReject
    \/ HandleDisconnect
    \/ SetRecipient
    \/ SetAmount
    \/ handleSubmit
    \/ FormSignResolve
    \/ FormSignReject
    \/ GetBalanceResolve
    \/ GetBalanceReject
    \/ TokenBalanceResolve
    \/ TokenBalanceReject

SpecTransfer == InitTransferPage /\ [][NextTransfer]_vars

\* C22 (as claimed): the transfer forms call signAndSendTransaction only
\* when the wallet is connected, the recipient is a valid address, the
\* amount is positive and the amount does not exceed the sender's balance.
\* handleSubmit skips the balance test while no balance is known.
C22_SendOnlyValidated ==
    (form.mounted /\ form.sent # NULL)
      => /\ TheVal(form.sent).connected
         /\ isValidAddress(TheVal(form.sent).recipient)
         /\ parseFloat(TheVal(form.sent).amount) > 0
         /\ TheVal(form.sent).balance # NULL
         /\ parseFloat(TheVal(form.sent).amount)
              <= TheVal(TheVal(form.sent).balance)

\* ---------------------------------------------------------------------
\* Further claims about useSession, under SpecSession
\* ---------------------------------------------------------------------

\* C23 (as claimed): clearing the session disconnects the wallet and
\* requires a new login: after clearSession the application is no longer
\* connected, and a page reload does not reconnect automatically.
\* clearSession removes the record and sessionInfo and leaves the wallet.
C23_ClearSessionDisconnects ==
    [][ClearSessionClick =>
         /\ ~isConnected'
         /\ MountSession(FALSE, NULL, lsSession', now', "idle").pc
              # "await_connect"]_vars

\* C24 (as claimed): the restore step calls connect() only when the stored
\* session is valid and the wallet is not already connected.
\* restoreSession tests isValidSession(session) alone.
C24_RestoreConnectsOnlyWhenDisconnected ==
    [][(sdkConnect # "restore" /\ sdkConnect' = "restore") =>
         /\ isValidSession(loadSession(lsSession'), now')
         /\ ~isConnected']_vars

\* the SDK's connect() eventually resolves or rejects
SpecSessionFair ==
    SpecSession /\ WF_vars(RestoreConnectResolve \/ RestoreConnectReject)

C26_CancelledRecordIsFrozen ==
    [][\A i \in 1 .. Len(loadSubscriptions(lsSubscriptions)) :
         loadSubscriptions(lsSubscriptions)[i].status = "cancelled" =>
           /\ i <= Len(loadSubscriptions(lsSubscriptions'))
           /\ loadSubscriptions(lsSubscriptions')[i].nextBillingDate =
                loadSubscriptions(lsSubscriptions)[i].nextBillingDate
           /\ loadSubscriptions(lsSubscriptions')[i].lastPaymentTx =
                loadSubscriptions(lsSubscriptions)[i].lastPaymentTx]_vars

\* C28 (as claimed): for any wallet the ledger never holds two active
\* subscriptions for the same plan; through the subscription page a wallet
\* cannot subscribe again to a plan it has an active subscription for.
\* The page disables only the card of the first active record's plan.
C28_OneActivePerPlan ==
    \A i, j \in 1 .. Len(loadSubscriptions(lsSubscriptions)) :
      (/\ i # j
       /\ loadSubscriptions(lsSubscriptions)[i].status = "active"
       /\ loadSubscriptions(lsSubscriptions)[j].status = "active"
       /\ loadSubscriptions(lsSubscriptions)[i].walletAddress =
            loadSubscriptions(lsSubscriptions)[j].walletAddress)
        => loadSubscriptions(lsSubscriptions)[i].planId #
             loadSubscriptions(lsSubscriptions)[j].planId

====
